---- MODULE Spec2Model ----
(***************************************************************************)
(* Model of the OpenRouter adapter layer of gemini-cli-openrouter:         *)
(*   - the non-interactive auth resolver (validateNonInteractiveAuth),     *)
(*   - the model identifier mapper (mapGeminiModelToOpenRouter),           *)
(*   - configuration assembly and the generator factory,                   *)
(*   - the OpenRouterContentGenerator client.                              *)
(* JavaScript strings are TLA+ strings; the value undefined is the         *)
(* distinguished string below.                                             *)
(***************************************************************************)
EXTENDS Integers, Sequences, FiniteSets, TLC

VARIABLES
    env,         \* process.env: variable name -> value or undefined
    settings,    \* settings.merged.security.auth: enforcedType, selectedType
    authArgs,    \* arguments of validateNonInteractiveAuth
    authPc,      \* "idle" | "refreshing" | "returned" | "exited"
    authError,   \* the error caught by validateNonInteractiveAuth, or NoError
    authCalls,   \* collaborator calls made by validateNonInteractiveAuth, in order
    mapIn,       \* argument of mapGeminiModelToOpenRouter
    mapOut,      \* its result, or Pending before the call
    cgConfig,    \* the ContentGeneratorConfig built, or NoConfig
    generator,   \* what createContentGenerator returned or threw, or NoGenerator
    calls,       \* the calls made on the OpenRouterContentGenerator, in order
    http,        \* the HTTP requests issued through fetch, in order
    sh,          \* scripts/manual-sync.sh: its shell variables and position
    repo         \* the git repository the script runs in, and the commands run

vars == <<env, settings, authArgs, authPc, authError, authCalls, mapIn, mapOut,
          cgConfig, generator, calls, http, sh, repo>>

syncVars == <<sh, repo>>

genVars == <<cgConfig, generator, calls, http>>

authVars == <<settings, authArgs, authPc, authError, authCalls>>
mapVars == <<mapIn, mapOut>>

undefined == "<undefined>"

\* Bounds of the model: the calls made on one client, and the longest of the
\* short texts counted.
MaxCalls == 2

\* JavaScript truthiness of a string-or-undefined value.
Truthy(v) == v # undefined /\ v # ""

\* a || b
OrElse(a, b) == IF Truthy(a) THEN a ELSE b

-----------------------------------------------------------------------------
(* JavaScript objects and strings *)

\* obj[key]: undefined when the object has no such property.
Get(obj, key) == IF key \in DOMAIN obj THEN obj[key] ELSE undefined

\* `${v}`
ToStr(v) == IF v = undefined THEN "undefined" ELSE v

RECURSIVE IndexFrom(_, _, _)
\* The least index i >= from at which pat occurs in str, 0 when there is none.
IndexFrom(str, pat, from) ==
    IF from + Len(pat) - 1 > Len(str) THEN 0
    ELSE IF SubSeq(str, from, from + Len(pat) - 1) = pat THEN from
    ELSE IndexFrom(str, pat, from + 1)

\* str.includes(pat)
Includes(str, pat) == IndexFrom(str, pat, 1) # 0

\* str.replace(pat, rep) with a string pattern: the first occurrence only.
ReplaceFirst(str, pat, rep) ==
    LET i == IndexFrom(str, pat, 1)
    IN  IF i = 0 THEN str
        ELSE SubSeq(str, 1, i - 1) \o rep \o SubSeq(str, i + Len(pat), Len(str))

RECURSIVE Join(_)
\* array.join('') of strings; undefined elements count as ''.
Join(strs) ==
    IF strs = <<>> THEN ""
    ELSE (IF Head(strs) = undefined THEN "" ELSE Head(strs)) \o Join(Tail(strs))

RECURSIVE JoinComma(_)
\* array.join(',')
JoinComma(strs) ==
    IF strs = <<>> THEN ""
    ELSE IF Len(strs) = 1 THEN Head(strs)
    ELSE Head(strs) \o "," \o JoinComma(Tail(strs))

RECURSIVE Repeat(_, _)
\* str.repeat(n)
Repeat(str, n) ==
    IF n = 0 THEN ""
    ELSE IF n % 2 = 0 THEN LET half == Repeat(str, n \div 2) IN half \o half
    ELSE str \o Repeat(str, n - 1)

-----------------------------------------------------------------------------
(* JSON.stringify of a contents array (strings here need no escaping) *)

JsonString(str) == "\"" \o str \o "\""

\* A part carrying at most a text: { text } or {}; a property whose value is
\* undefined is left out.
JsonPart(part) ==
    IF Get(part, "text") = undefined THEN "{}"
    ELSE "{\"text\":" \o JsonString(part.text) \o "}"

JsonParts(parts) ==
    "[" \o JoinComma([i \in DOMAIN parts |-> JsonPart(parts[i])]) \o "]"

\* A content { role, parts }, properties in insertion order.
JsonContent(content) ==
    LET role == IF Get(content, "role") = undefined THEN <<>>
                ELSE <<"\"role\":" \o JsonString(content.role)>>
        parts == IF "parts" \in DOMAIN content
                 THEN <<"\"parts\":" \o JsonParts(content.parts)>>
                 ELSE <<>>
    IN  "{" \o JoinComma(role \o parts) \o "}"

JsonContents(contents) ==
    "[" \o JoinComma([i \in DOMAIN contents |-> JsonContent(contents[i])]) \o "]"

\* Mutant: Math.floor in place of Math.ceil.
Ceil_Floor(n, d) == n \div d

\* Math.ceil(n / d) for n >= 0, d > 0
Ceil(n, d) == (n + d - 1) \div d

-----------------------------------------------------------------------------
(* OpenRouterContentGenerator: the pure helpers *)

\* this.baseUrl.includes(...) throws a TypeError when baseUrl is undefined.
MapModelThrows(baseUrl) == baseUrl = undefined

\* private mapModel(model), for a baseUrl that is a string; every branch
\* returns the stripped model.
mapModel(model, baseUrl) ==
    LET mappedModel == ReplaceFirst(model, "models/", "")
    IN  IF Includes(baseUrl, "api.z.ai") THEN mappedModel
        ELSE IF Includes(baseUrl, "openrouter.ai") THEN mappedModel
        ELSE mappedModel

\* Mutant: only the first part's text is taken.
PartsText_FirstOnly(content) ==
    IF "parts" \in DOMAIN content /\ content.parts # <<>>
    THEN ToStr(Get(content.parts[1], "text"))
    ELSE ""

\* content.parts?.map((part) => part.text).join('') || ''
PartsText(content) ==
    IF "parts" \in DOMAIN content
    THEN Join([i \in DOMAIN content.parts |-> Get(content.parts[i], "text")])
    ELSE ""

\* private convertContentsToMessages(contents)
convertContentsToMessages(contents) ==
    [i \in DOMAIN contents |->
        [role |-> OrElse(Get(contents[i], "role"), "user"),
         content |-> PartsText(contents[i])]]

\* data.choices[0].finish_reason and data.choices[0].message.content can be
\* read: otherwise convertResponse throws a TypeError.
CanConvert(data) ==
    /\ "choices" \in DOMAIN data
    /\ Len(data.choices) >= 1
    /\ "message" \in DOMAIN data.choices[1]

\* data.usage?.[field] || 0
UsageOrZero(data, field) ==
    IF "usage" \in DOMAIN data /\ field \in DOMAIN data.usage
    THEN data.usage[field]
    ELSE 0

\* Mutant: the finish reason is STOP whatever the upstream reports.
convertResponse_AlwaysStop(data) ==
    [candidates |->
        <<[content |-> [role |-> "model",
                        parts |-> <<[text |-> Get(data.choices[1].message, "content")]>>],
           finishReason |-> "STOP",
           index |-> 0]>>,
     usageMetadata |->
        [promptTokenCount |-> UsageOrZero(data, "prompt_tokens"),
         candidatesTokenCount |-> UsageOrZero(data, "completion_tokens"),
         totalTokenCount |-> UsageOrZero(data, "total_tokens")]]

\* private convertResponse(data)
convertResponse(data) ==
    [candidates |->
        <<[content |-> [role |-> "model",
                        parts |-> <<[text |-> Get(data.choices[1].message, "content")]>>],
           finishReason |-> IF Get(data.choices[1], "finish_reason") = "stop"
                            THEN "STOP" ELSE "OTHER",
           index |-> 0]>>,
     usageMetadata |->
        [promptTokenCount |-> UsageOrZero(data, "prompt_tokens"),
         candidatesTokenCount |-> UsageOrZero(data, "completion_tokens"),
         totalTokenCount |-> UsageOrZero(data, "total_tokens")]]

\* countTokens: Math.ceil(JSON.stringify(request.contents).length / 4)
EstimatedTokens(contents) == Ceil(Len(JsonContents(contents)), 4)

-----------------------------------------------------------------------------
(* enum AuthType *)

LOGIN_WITH_GOOGLE == "oauth-personal"
USE_GEMINI == "gemini-api-key"
USE_VERTEX_AI == "vertex-ai"
CLOUD_SHELL == "cloud-shell"
USE_OPENROUTER == "openrouter"

AuthType == {LOGIN_WITH_GOOGLE, USE_GEMINI, USE_VERTEX_AI, CLOUD_SHELL, USE_OPENROUTER}

-----------------------------------------------------------------------------
(* process.env *)

EnvNames == {"GOOGLE_GENAI_USE_GCA", "GOOGLE_GENAI_USE_VERTEXAI",
             "OPENROUTER_API_KEY", "GEMINI_API_KEY", "GOOGLE_API_KEY",
             "GOOGLE_CLOUD_PROJECT", "GOOGLE_CLOUD_LOCATION",
             "OPENROUTER_BASE_URL"}

FlagValues == {undefined, "true", "false"}
KeyValues == {undefined, "", "sk-key"}

EmptyEnv == [n \in EnvNames |-> undefined]

\* The environments the resolver is run in: every combination of the four
\* variables getAuthTypeFromEnv reads.
AuthEnvs ==
    {[EmptyEnv EXCEPT !["GOOGLE_GENAI_USE_GCA"] = gca,
                      !["GOOGLE_GENAI_USE_VERTEXAI"] = vtx,
                      !["OPENROUTER_API_KEY"] = ork,
                      !["GEMINI_API_KEY"] = gem] :
        gca \in FlagValues, vtx \in FlagValues,
        ork \in KeyValues, gem \in KeyValues}

\* Mutant: the API keys are checked before the two flags.
getAuthTypeFromEnv_KeysFirst(e) ==
    IF Truthy(e["OPENROUTER_API_KEY"]) THEN USE_OPENROUTER
    ELSE IF Truthy(e["GEMINI_API_KEY"]) THEN USE_GEMINI
    ELSE IF e["GOOGLE_GENAI_USE_GCA"] = "true" THEN LOGIN_WITH_GOOGLE
    ELSE IF e["GOOGLE_GENAI_USE_VERTEXAI"] = "true" THEN USE_VERTEX_AI
    ELSE undefined

getAuthTypeFromEnv(e) ==
    IF e["GOOGLE_GENAI_USE_GCA"] = "true" THEN LOGIN_WITH_GOOGLE
    ELSE IF e["GOOGLE_GENAI_USE_VERTEXAI"] = "true" THEN USE_VERTEX_AI
    ELSE IF Truthy(e["OPENROUTER_API_KEY"]) THEN USE_OPENROUTER
    ELSE IF Truthy(e["GEMINI_API_KEY"]) THEN USE_GEMINI
    ELSE undefined

-----------------------------------------------------------------------------
(* validateNonInteractiveAuth *)

NoError == [kind |-> "none", names |-> <<>>]

\* "The configured auth type is ..., but the current auth type is ..."
AuthMismatchError == [kind |-> "AuthMismatch", names |-> <<>>]

\* "Please set an Auth method ... or specify one of the following
\* environment variables before running: ..."
ConfigurationError ==
    [kind |-> "Configuration",
     names |-> <<"OPENROUTER_API_KEY", "GEMINI_API_KEY",
                 "GOOGLE_GENAI_USE_VERTEXAI", "GOOGLE_GENAI_USE_GCA">>]

\* new Error(err) for the message validateAuthMethod returned
AuthMethodError == [kind |-> "AuthMethod", names |-> <<>>]

\* whatever nonInteractiveConfig.refreshAuth rejected with
RefreshAuthError == [kind |-> "RefreshAuth", names |-> <<>>]

Call(fn, arg) == [fn |-> fn, arg |-> arg]

\* Mutant: the explicit argument takes precedence over the detected type.
EffectiveAuthType_ArgFirst(enforcedType, detectedAuthType, configuredAuthType) ==
    OrElse(OrElse(enforcedType, configuredAuthType), detectedAuthType)

\* const effectiveAuthType = enforcedType || detectedAuthType || configuredAuthType
EffectiveAuthType(enforcedType, detectedAuthType, configuredAuthType) ==
    OrElse(OrElse(enforcedType, detectedAuthType), configuredAuthType)

\* Mutant: no mismatch when the environment indicates no type at all.
EnforcedMismatch_DetectedOnly(enforcedType, currentAuthType) ==
    Truthy(enforcedType) /\ Truthy(currentAuthType) /\ currentAuthType # enforcedType

\* Mutant: the comparison of the enforced and the current type inverted.
EnforcedMismatch_Inverted(enforcedType, currentAuthType) ==
    Truthy(enforcedType) /\ currentAuthType = enforcedType

\* if (enforcedType) { if (getAuthTypeFromEnv() !== enforcedType) throw }
EnforcedMismatch(enforcedType, currentAuthType) ==
    Truthy(enforcedType) /\ currentAuthType # enforcedType

\* Mutant: the settings are written whenever a type is detected.
NeedsSettingsUpdate_Always(detectedAuthType, selectedType) ==
    Truthy(detectedAuthType)

\* detectedAuthType && settings.merged.security?.auth?.selectedType !== detectedAuthType
NeedsSettingsUpdate(detectedAuthType, selectedType) ==
    Truthy(detectedAuthType) /\ selectedType # detectedAuthType

\* The catch block: handleError(..., 1) or console.error + process.exit(1).
Exit(error) ==
    /\ authPc' = "exited"
    /\ authError' = error

\* Mutant: the settings are written after the auth method is validated, and
\* not at all when the validation fails.
ValidateNonInteractiveAuth_WriteLast(validateErr) ==
    /\ authPc = "idle"
    /\ LET enforcedType == settings.enforcedType
           detectedAuthType == getAuthTypeFromEnv(env)
           effectiveAuthType ==
               EffectiveAuthType(enforcedType, detectedAuthType,
                                 authArgs.configuredAuthType)
           update == NeedsSettingsUpdate(detectedAuthType, settings.selectedType)
           written == IF update THEN <<Call("setValue", detectedAuthType)>>
                                ELSE <<>>
           validated == IF authArgs.useExternalAuth THEN <<>>
                        ELSE <<Call("validateAuthMethod", effectiveAuthType)>>
       IN  IF EnforcedMismatch(enforcedType, detectedAuthType)
           THEN /\ Exit(AuthMismatchError)
                /\ UNCHANGED <<settings, authCalls>>
           ELSE IF ~Truthy(effectiveAuthType)
           THEN /\ Exit(ConfigurationError)
                /\ UNCHANGED <<settings, authCalls>>
           ELSE IF ~authArgs.useExternalAuth /\ validateErr # undefined
           THEN /\ Exit(AuthMethodError)
                /\ settings' = settings
                /\ authCalls' = authCalls \o validated
           ELSE /\ authPc' = "refreshing"
                /\ authError' = authError
                /\ settings' = IF update
                               THEN [settings EXCEPT !.selectedType = detectedAuthType]
                               ELSE settings
                /\ authCalls' = authCalls \o validated \o written
                                \o <<Call("refreshAuth", effectiveAuthType)>>
    /\ UNCHANGED <<env, syncVars, authArgs, mapVars, genVars>>

\* The synchronous part of validateNonInteractiveAuth, up to the await of
\* refreshAuth.  validateErr is what validateAuthMethod returns for the
\* effective type: null (undefined here) or a message.
ValidateNonInteractiveAuth(validateErr) ==
    /\ authPc = "idle"
    /\ LET enforcedType == settings.enforcedType
           detectedAuthType == getAuthTypeFromEnv(env)
           effectiveAuthType ==
               EffectiveAuthType(enforcedType, detectedAuthType,
                                 authArgs.configuredAuthType)
           update == NeedsSettingsUpdate(detectedAuthType, settings.selectedType)
           written == IF update THEN <<Call("setValue", detectedAuthType)>>
                                ELSE <<>>
           validated == IF authArgs.useExternalAuth THEN <<>>
                        ELSE <<Call("validateAuthMethod", effectiveAuthType)>>
       IN  IF EnforcedMismatch(enforcedType, detectedAuthType)
           THEN /\ Exit(AuthMismatchError)
                /\ UNCHANGED <<settings, authCalls>>
           ELSE IF ~Truthy(effectiveAuthType)
           THEN /\ Exit(ConfigurationError)
                /\ UNCHANGED <<settings, authCalls>>
           ELSE /\ settings' = IF update
                               THEN [settings EXCEPT !.selectedType = detectedAuthType]
                               ELSE settings
                /\ IF ~authArgs.useExternalAuth /\ validateErr # undefined
                   THEN /\ Exit(AuthMethodError)
                        /\ authCalls' = authCalls \o written \o validated
                   ELSE /\ authPc' = "refreshing"
                        /\ authError' = authError
                        /\ authCalls' = authCalls \o written \o validated
                                        \o <<Call("refreshAuth", effectiveAuthType)>>
    /\ UNCHANGED <<env, syncVars, authArgs, mapVars, genVars>>

\* await nonInteractiveConfig.refreshAuth(authType) resolves:
\* return nonInteractiveConfig
RefreshAuthResolves ==
    /\ authPc = "refreshing"
    /\ authPc' = "returned"
    /\ UNCHANGED <<env, syncVars, settings, authArgs, authError, authCalls, mapVars, genVars>>

\* await nonInteractiveConfig.refreshAuth(authType) rejects: the catch block
RefreshAuthRejects ==
    /\ authPc = "refreshing"
    /\ Exit(RefreshAuthError)
    /\ UNCHANGED <<env, syncVars, settings, authArgs, authCalls, mapVars, genVars>>

AuthTypeOrUndefined == AuthType \cup {undefined}

AuthIdle ==
    /\ settings = [enforcedType |-> undefined, selectedType |-> undefined]
    /\ authArgs = [configuredAuthType |-> undefined, useExternalAuth |-> FALSE]
    /\ authPc = "idle"
    /\ authError = NoError
    /\ authCalls = <<>>

-----------------------------------------------------------------------------
(* mapGeminiModelToOpenRouter (packages/core/src/core/contentGenerator.ts) *)

\* A JavaScript value: a string, or something that is not a string.
StringValue(s) == [type |-> "string", value |-> s]
ObjectValue(name) == [type |-> "object", value |-> name]
Pending == [type |-> "pending", value |-> ""]

\* const modelMap: Record<string, string> = { ... }
modelMap ==
    [m \in {"gemini-2.5-pro", "gemini-2.5-flash", "gemini-2.5-pro-preview",
            "gemini-2.5-flash-preview", "gemini-2.0-flash-thinking-exp",
            "gemini-2.0-flash-exp", "gemini-pro", "gemini-pro-vision",
            "gemini-flash-1.5", "gemini-1.5-pro", "gemini-1.5-flash"} |->
        CASE m = "gemini-2.5-pro" -> "google/gemini-2.5-pro"
          [] m = "gemini-2.5-flash" -> "google/gemini-2.5-flash"
          [] m = "gemini-2.5-pro-preview" -> "google/gemini-2.5-pro-preview"
          [] m = "gemini-2.5-flash-preview" -> "google/gemini-2.5-flash-preview"
          [] m = "gemini-2.0-flash-thinking-exp" -> "google/gemini-2.0-flash-thinking-exp"
          [] m = "gemini-2.0-flash-exp" -> "google/gemini-2.0-flash-exp"
          [] m = "gemini-pro" -> "google/gemini-pro"
          [] m = "gemini-pro-vision" -> "google/gemini-pro-vision"
          [] m = "gemini-flash-1.5" -> "google/gemini-flash-1.5"
          [] m = "gemini-1.5-pro" -> "google/gemini-pro-1.5"
          [] m = "gemini-1.5-flash" -> "google/gemini-flash-1.5"]

\* modelMap is an object literal: its prototype is Object.prototype, whose
\* properties a lookup modelMap[key] finds when key is no own property.
ObjectPrototypeKeys ==
    {"constructor", "toString", "toLocaleString", "valueOf", "hasOwnProperty",
     "isPrototypeOf", "propertyIsEnumerable", "__proto__",
     "__defineGetter__", "__defineSetter__", "__lookupGetter__",
     "__lookupSetter__"}

\* modelMap[model] || `google/${model}`
mapGeminiModelToOpenRouter(model) ==
    IF model \in DOMAIN modelMap THEN StringValue(modelMap[model])
    ELSE IF model \in ObjectPrototypeKeys
         THEN ObjectValue("Object.prototype." \o model)
    ELSE StringValue("google/" \o model)

\* The identifiers the mapper is applied to.
MapPrefixes == {"", "models/", "google/"}
MapStems == DOMAIN modelMap \cup ObjectPrototypeKeys
                \cup {"", "gpt-4o", "gemini-3-pro", "Gemini-2.5-Pro",
                      "gemini-2.5-pro ", "glm-4.5"}
MapInputs == {p \o st : p \in MapPrefixes, st \in MapStems}

MapIdle ==
    /\ mapIn = undefined
    /\ mapOut = Pending

MapModel ==
    /\ mapOut = Pending
    /\ mapOut' = mapGeminiModelToOpenRouter(mapIn)
    /\ UNCHANGED <<env, syncVars, authVars, mapIn, genVars>>

-----------------------------------------------------------------------------
(* createContentGeneratorConfig and createContentGenerator (part_002) *)

NoConfig == [none |-> TRUE]
NoGenerator == [kind |-> "none"]

DEFAULT_OPENROUTER_BASE_URL == "https://openrouter.ai/api/v1"

\* function createContentGeneratorConfig(config, authType); proxy is what
\* config?.getProxy() returns.
ContentGeneratorConfig(e, authType, proxy) ==
    LET geminiApiKey == OrElse(e["GEMINI_API_KEY"], undefined)
        googleApiKey == OrElse(e["GOOGLE_API_KEY"], undefined)
        googleCloudProject == OrElse(e["GOOGLE_CLOUD_PROJECT"], undefined)
        googleCloudLocation == OrElse(e["GOOGLE_CLOUD_LOCATION"], undefined)
        openRouterApiKey == OrElse(e["OPENROUTER_API_KEY"], undefined)
        openRouterBaseUrl ==
            OrElse(e["OPENROUTER_BASE_URL"], DEFAULT_OPENROUTER_BASE_URL)
        contentGeneratorConfig == [authType |-> authType, proxy |-> proxy]
    IN  IF authType = LOGIN_WITH_GOOGLE \/ authType = CLOUD_SHELL
        THEN contentGeneratorConfig
        ELSE IF authType = USE_GEMINI /\ Truthy(geminiApiKey)
        THEN [apiKey |-> geminiApiKey, vertexai |-> FALSE] @@ contentGeneratorConfig
        ELSE IF /\ authType = USE_VERTEX_AI
                /\ \/ Truthy(googleApiKey)
                   \/ Truthy(googleCloudProject) /\ Truthy(googleCloudLocation)
        THEN [apiKey |-> googleApiKey, vertexai |-> TRUE] @@ contentGeneratorConfig
        ELSE IF authType = USE_OPENROUTER /\ Truthy(openRouterApiKey)
        THEN [apiKey |-> openRouterApiKey, baseUrl |-> openRouterBaseUrl]
                 @@ contentGeneratorConfig
        ELSE contentGeneratorConfig

CreateContentGeneratorConfig(authType, proxy) ==
    /\ cgConfig = NoConfig
    /\ cgConfig' = ContentGeneratorConfig(env, authType, proxy)
    /\ UNCHANGED <<env, syncVars, authVars, mapVars, generator, calls, http>>

\* new LoggingContentGenerator(wrapped, gcConfig)
LoggingContentGenerator(wrapped) ==
    [kind |-> "LoggingContentGenerator", wrapped |-> wrapped]

\* new OpenRouterContentGenerator(apiKey, baseUrl)
OpenRouterContentGenerator(apiKey, baseUrl) ==
    [kind |-> "OpenRouterContentGenerator", apiKey |-> apiKey, baseUrl |-> baseUrl]

\* throw new Error(`Error creating contentGenerator: Unsupported authType: ...`)
UnsupportedAuthTypeError(authType) ==
    [kind |-> "Error",
     message |-> "Error creating contentGenerator: Unsupported authType: "
                     \o ToStr(authType)]

\* Mutant: the CLOUD_SHELL type is not dispatched to the Code Assist client.
ContentGeneratorFor_NoCloudShell(config, codeAssistOk) ==
    IF config.authType = LOGIN_WITH_GOOGLE
    THEN IF codeAssistOk
         THEN LoggingContentGenerator(
                  [kind |-> "CodeAssistContentGenerator",
                   authType |-> config.authType])
         ELSE [kind |-> "Error", message |-> "createCodeAssistContentGenerator rejected"]
    ELSE IF config.authType = USE_GEMINI \/ config.authType = USE_VERTEX_AI
    THEN LoggingContentGenerator(
             [kind |-> "GoogleGenAI.models",
              apiKey |-> IF Get(config, "apiKey") = "" THEN undefined
                         ELSE Get(config, "apiKey"),
              vertexai |-> IF "vertexai" \in DOMAIN config
                           THEN (IF config.vertexai THEN "true" ELSE "false")
                           ELSE undefined])
    ELSE IF config.authType = USE_OPENROUTER
    THEN LoggingContentGenerator(
             OpenRouterContentGenerator(Get(config, "apiKey"), Get(config, "baseUrl")))
    ELSE UnsupportedAuthTypeError(config.authType)

\* async function createContentGenerator(config, gcConfig, sessionId);
\* codeAssistOk tells whether the awaited createCodeAssistContentGenerator
\* resolves.
ContentGeneratorFor(config, codeAssistOk) ==
    IF config.authType = LOGIN_WITH_GOOGLE \/ config.authType = CLOUD_SHELL
    THEN IF codeAssistOk
         THEN LoggingContentGenerator(
                  [kind |-> "CodeAssistContentGenerator",
                   authType |-> config.authType])
         ELSE [kind |-> "Error", message |-> "createCodeAssistContentGenerator rejected"]
    ELSE IF config.authType = USE_GEMINI \/ config.authType = USE_VERTEX_AI
    THEN LoggingContentGenerator(
             [kind |-> "GoogleGenAI.models",
              apiKey |-> IF Get(config, "apiKey") = "" THEN undefined
                         ELSE Get(config, "apiKey"),
              vertexai |-> IF "vertexai" \in DOMAIN config
                           THEN (IF config.vertexai THEN "true" ELSE "false")
                           ELSE undefined])
    ELSE IF config.authType = USE_OPENROUTER
    THEN LoggingContentGenerator(
             OpenRouterContentGenerator(Get(config, "apiKey"), Get(config, "baseUrl")))
    ELSE UnsupportedAuthTypeError(config.authType)

CreateContentGenerator(codeAssistOk) ==
    /\ cgConfig # NoConfig
    /\ generator = NoGenerator
    /\ generator' = ContentGeneratorFor(cgConfig, codeAssistOk)
    /\ UNCHANGED <<env, syncVars, authVars, mapVars, cgConfig, calls, http>>

-----------------------------------------------------------------------------
(* createContentGeneratorConfig and createContentGenerator
   (packages/core/src/core/contentGenerator.ts) *)

\* enum AuthType of this file: no CLOUD_SHELL
LOGIN_WITH_GOOGLE_PERSONAL == "oauth-personal"

CoreAuthType ==
    {LOGIN_WITH_GOOGLE_PERSONAL, USE_GEMINI, USE_VERTEX_AI, USE_OPENROUTER}

DEFAULT_GEMINI_MODEL == "gemini-2.5-pro"

\* async function createContentGeneratorConfig(model, authType, config?);
\* runtimeModel is what config?.getModel?.() returns and effective what the
\* awaited getEffectiveModel(apiKey, model) resolves with.
CoreContentGeneratorConfig(e, model, authType, runtimeModel, effective) ==
    LET geminiApiKey == e["GEMINI_API_KEY"]
        googleApiKey == e["GOOGLE_API_KEY"]
        googleCloudProject == e["GOOGLE_CLOUD_PROJECT"]
        googleCloudLocation == e["GOOGLE_CLOUD_LOCATION"]
        openRouterApiKey == e["OPENROUTER_API_KEY"]
        openRouterBaseUrl == e["OPENROUTER_BASE_URL"]
        effectiveModel == OrElse(runtimeModel, OrElse(model, DEFAULT_GEMINI_MODEL))
        contentGeneratorConfig == [model |-> effectiveModel, authType |-> authType]
    IN  IF authType = LOGIN_WITH_GOOGLE_PERSONAL
        THEN contentGeneratorConfig
        ELSE IF authType = USE_GEMINI /\ Truthy(geminiApiKey)
        THEN [apiKey |-> geminiApiKey, model |-> effective] @@ contentGeneratorConfig
        ELSE IF /\ authType = USE_VERTEX_AI
                /\ Truthy(googleApiKey)
                /\ Truthy(googleCloudProject)
                /\ Truthy(googleCloudLocation)
        THEN [apiKey |-> googleApiKey, vertexai |-> TRUE, model |-> effective]
                 @@ contentGeneratorConfig
        ELSE IF authType = USE_OPENROUTER /\ Truthy(openRouterApiKey)
        THEN [apiKey |-> openRouterApiKey,
              openRouterBaseUrl |->
                  OrElse(openRouterBaseUrl, DEFAULT_OPENROUTER_BASE_URL),
              model |-> mapGeminiModelToOpenRouter(effectiveModel).value]
                 @@ contentGeneratorConfig
        ELSE contentGeneratorConfig

CoreCreateContentGeneratorConfig(model, authType, runtimeModel, effective) ==
    /\ cgConfig = NoConfig
    /\ cgConfig' = CoreContentGeneratorConfig(env, model, authType,
                                               runtimeModel, effective)
    /\ UNCHANGED <<env, syncVars, authVars, mapVars, generator, calls, http>>

\* async function createContentGenerator(config): every branch returns the
\* client itself. createOpenRouterContentGenerator comes from
\* ./openRouterContentGenerator.js and is kept as the call it is.
CoreContentGeneratorFor(config, codeAssistOk) ==
    IF config.authType = LOGIN_WITH_GOOGLE_PERSONAL
    THEN IF codeAssistOk
         THEN [kind |-> "CodeAssistContentGenerator", authType |-> config.authType]
         ELSE [kind |-> "Error", message |-> "createCodeAssistContentGenerator rejected"]
    ELSE IF config.authType = USE_GEMINI \/ config.authType = USE_VERTEX_AI
    THEN [kind |-> "GoogleGenAI.models",
          apiKey |-> IF Get(config, "apiKey") = "" THEN undefined
                     ELSE Get(config, "apiKey"),
          vertexai |-> IF "vertexai" \in DOMAIN config
                       THEN (IF config.vertexai THEN "true" ELSE "false")
                       ELSE undefined]
    ELSE IF config.authType = USE_OPENROUTER
    THEN [kind |-> "createOpenRouterContentGenerator", config |-> config]
    ELSE UnsupportedAuthTypeError(config.authType)

\* The configuration type of this file has the required field model.
CoreCreateContentGenerator(codeAssistOk) ==
    /\ cgConfig # NoConfig
    /\ "model" \in DOMAIN cgConfig
    /\ generator = NoGenerator
    /\ generator' = CoreContentGeneratorFor(cgConfig, codeAssistOk)
    /\ UNCHANGED <<env, syncVars, authVars, mapVars, cgConfig, calls, http>>

-----------------------------------------------------------------------------
(* OpenRouterContentGenerator: the calls *)

\* The adapter client behind the logging wrapper, when the factory built one.
HasClient ==
    /\ generator.kind = "LoggingContentGenerator"
    /\ generator.wrapped.kind = "OpenRouterContentGenerator"

client == generator.wrapped

NoValue == [kind |-> "none"]

\* A call on the client: op, request, where it stands, what it returned or
\* threw, for generateContentStream the state of the generator object
\* it returned with the items its consumer has received, and whether the
\* caller has aborted the AbortSignal it gave in request.config.
NewCall(op, request) ==
    [op |-> op, request |-> request, pc |-> "start", value |-> NoValue,
     error |-> undefined, genState |-> "none", received |-> <<>>,
     aborted |-> FALSE]

Throw(call, message) == [call EXCEPT !.pc = "failed", !.error = message]
Return(call, value) == [call EXCEPT !.pc = "returned", !.value = value]

\* { model, messages, ...request.config }: later properties win
RequestBody(model, messages, config) ==
    config @@ [model |-> model, messages |-> messages]

\* The fetch of generateContent: POST `${this.baseUrl}/chat/completions`
FetchRequest(id, cl, request) ==
    [call |-> id,
     method |-> "POST",
     url |-> ToStr(cl.baseUrl) \o "/chat/completions",
     headers |-> ("Authorization" :> "Bearer " \o ToStr(cl.apiKey))
                     @@ ("Content-Type" :> "application/json"),
     body |-> RequestBody(mapModel(request.model, cl.baseUrl),
                          convertContentsToMessages(request.contents),
                          request.config)]

\* generateContent(request) and generateContentStream(request), which awaits
\* generateContent first: the part up to `await fetch(...)`.
GenerateContent(op, request) ==
    /\ HasClient
    /\ Len(calls) < MaxCalls
    /\ op \in {"generateContent", "generateContentStream"}
    /\ LET id == Len(calls) + 1
           call == NewCall(op, request)
       IN  IF MapModelThrows(client.baseUrl)
           THEN /\ calls' = Append(calls, Throw(call, "TypeError"))
                /\ http' = http
           ELSE /\ calls' = Append(calls, [call EXCEPT !.pc = "fetch"])
                /\ http' = Append(http, FetchRequest(id, client, request))
    /\ UNCHANGED <<env, syncVars, authVars, mapVars, cgConfig, generator>>

\* await fetch(...) resolves with a response: if (!response.ok) throw
FetchResolves(id, ok, statusText) ==
    /\ id \in DOMAIN calls
    /\ calls[id].pc = "fetch"
    /\ calls' = [calls EXCEPT ![id] =
                    IF ok THEN [@ EXCEPT !.pc = "json"]
                    ELSE Throw(@, "OpenRouter API error: " \o statusText)]
    /\ UNCHANGED <<env, syncVars, authVars, mapVars, cgConfig, generator, http>>

\* await fetch(...) rejects (no response)
FetchRejects(id) ==
    /\ id \in DOMAIN calls
    /\ calls[id].pc = "fetch"
    /\ calls' = [calls EXCEPT ![id] = Throw(@, "fetch failed")]
    /\ UNCHANGED <<env, syncVars, authVars, mapVars, cgConfig, generator, http>>

\* await response.json() resolves with data: return this.convertResponse(data);
\* generateContentStream then returns generator(), not yet started.
JsonResolves(id, data) ==
    /\ id \in DOMAIN calls
    /\ calls[id].pc = "json"
    /\ calls' = [calls EXCEPT ![id] =
                    IF ~CanConvert(data) THEN Throw(@, "TypeError")
                    ELSE IF @.op = "generateContentStream"
                    THEN [Return(@, [kind |-> "AsyncGenerator",
                                     result |-> convertResponse(data)])
                             EXCEPT !.genState = "suspendedStart"]
                    ELSE Return(@, convertResponse(data))]
    /\ UNCHANGED <<env, syncVars, authVars, mapVars, cgConfig, generator, http>>

\* await response.json() rejects: the body is no JSON
JsonRejects(id) ==
    /\ id \in DOMAIN calls
    /\ calls[id].pc = "json"
    /\ calls' = [calls EXCEPT ![id] = Throw(@, "SyntaxError")]
    /\ UNCHANGED <<env, syncVars, authVars, mapVars, cgConfig, generator, http>>

\* The caller aborts the signal of a call that is waiting for the gateway.
\* generateContent gives fetch no signal and listens to none (the init
\* object is { method, headers, body }), so nothing else changes.
AbortSignal(id) ==
    /\ id \in DOMAIN calls
    /\ calls[id].pc \in {"fetch", "json"}
    /\ ~calls[id].aborted
    /\ calls' = [calls EXCEPT ![id].aborted = TRUE]
    /\ UNCHANGED <<env, syncVars, authVars, mapVars, cgConfig, generator, http>>

\* Mutant: the generator yields its result again instead of finishing.
StreamNext_YieldsAgain(id) ==
    /\ id \in DOMAIN calls
    /\ calls[id].genState \in {"suspendedStart", "suspendedYield"}
    /\ Len(calls[id].received) < 2
    /\ calls' = [calls EXCEPT ![id] =
                    [@ EXCEPT !.genState = "suspendedYield",
                              !.received = Append(@, calls[id].value.result)]]
    /\ UNCHANGED <<env, syncVars, authVars, mapVars, cgConfig, generator, http>>

\* The consumer calls next() on the generator a generateContentStream call
\* returned: async function* generator() { yield result; }
StreamNext(id) ==
    /\ id \in DOMAIN calls
    /\ calls[id].genState \in {"suspendedStart", "suspendedYield"}
    /\ calls' = [calls EXCEPT ![id] =
                    IF @.genState = "suspendedStart"
                    THEN [@ EXCEPT !.genState = "suspendedYield",
                                   !.received = Append(@, calls[id].value.result)]
                    ELSE [@ EXCEPT !.genState = "completed"]]
    /\ UNCHANGED <<env, syncVars, authVars, mapVars, cgConfig, generator, http>>

\* async countTokens(request)
CountTokens(request) ==
    /\ HasClient
    /\ Len(calls) < MaxCalls
    /\ calls' = Append(calls,
                       Return(NewCall("countTokens", request),
                              [totalTokens |-> EstimatedTokens(request.contents)]))
    /\ UNCHANGED <<env, syncVars, authVars, mapVars, cgConfig, generator, http>>

\* Mutant: embedContent asks the gateway for the embedding.
EmbedContent_Fetches(request) ==
    /\ HasClient
    /\ Len(calls) < MaxCalls
    /\ calls' = Append(calls, [NewCall("embedContent", request) EXCEPT !.pc = "fetch"])
    /\ http' = Append(http, [call |-> Len(calls) + 1, method |-> "POST",
                             url |-> ToStr(client.baseUrl) \o "/embeddings",
                             headers |-> <<>>, body |-> <<>>])
    /\ UNCHANGED <<env, syncVars, authVars, mapVars, cgConfig, generator>>

\* async embedContent(request)
EmbedContent(request) ==
    /\ HasClient
    /\ Len(calls) < MaxCalls
    /\ calls' = Append(calls,
                       Throw(NewCall("embedContent", request),
                             "Embeddings not supported for OpenRouter"))
    /\ UNCHANGED <<env, syncVars, authVars, mapVars, cgConfig, generator, http>>

GenIdle ==
    /\ cgConfig = NoConfig
    /\ generator = NoGenerator
    /\ calls = <<>>
    /\ http = <<>>

-----------------------------------------------------------------------------
(* scripts/manual-sync.sh *)

\* TIMESTAMP=$(date +%Y%m%d-%H%M%S)
TIMESTAMP == "20241201-143022"

MAIN == "main"
FEATURE == "feature/openrouter-support"

SyncTypes == {"full", "main-only", "feature-only"}

\* local backup_branch="backup/${branch}-pre-sync-$TIMESTAMP"
backup_branch(branch) == "backup/" \o branch \o "-pre-sync-" \o TIMESTAMP

\* A command the script ran that changes the repository, its remotes or the
\* working tree; on is the branch checked out when it ran.
Cmd(cmd, arg, on) == [cmd |-> cmd, arg |-> arg, on |-> on]

\* The default values, before the arguments are parsed.
Defaults ==
    [SYNC_TYPE |-> "full", CREATE_RELEASE |-> FALSE, DRY_RUN |-> FALSE,
     CREATE_PR |-> FALSE, stop |-> ""]

\* while [[ $# -gt 0 ]]; do case $1 in ... esac; done: stop tells why the
\* loop left the script ("help": usage and exit 0; "unknown": exit 1;
\* "shift": shift 2 without a second argument fails under set -e).
RECURSIVE ParseArgs(_, _)
ParseArgs(argv, o) ==
    IF argv = <<>> THEN o
    ELSE LET a == Head(argv)
         IN  IF a \in {"-t", "--type"}
             THEN IF Len(argv) >= 2
                  THEN ParseArgs(SubSeq(argv, 3, Len(argv)),
                                 [o EXCEPT !.SYNC_TYPE = argv[2]])
                  ELSE [o EXCEPT !.SYNC_TYPE = "", !.stop = "shift"]
             ELSE IF a \in {"-r", "--release"}
             THEN ParseArgs(Tail(argv), [o EXCEPT !.CREATE_RELEASE = TRUE])
             ELSE IF a \in {"-d", "--dry-run"}
             THEN ParseArgs(Tail(argv), [o EXCEPT !.DRY_RUN = TRUE])
             ELSE IF a \in {"-p", "--create-pr"}
             THEN ParseArgs(Tail(argv), [o EXCEPT !.CREATE_PR = TRUE])
             ELSE IF a \in {"-h", "--help"}
             THEN [o EXCEPT !.stop = "help"]
             ELSE [o EXCEPT !.stop = "unknown"]

\* The script has not been started: its variables, and a repository with
\* both branches and a clean working tree.
NotStarted ==
    [pc |-> "start", argv |-> <<>>, SYNC_TYPE |-> "full",
     CREATE_RELEASE |-> FALSE, DRY_RUN |-> FALSE, CREATE_PR |-> FALSE,
     CONFLICTS_DETECTED |-> FALSE, FEATURE_UPDATES_AVAILABLE |-> FALSE,
     FEATURE_AHEAD |-> 0, status |-> 0]

Repository(inRepo, dirty, branches) ==
    [inRepo |-> inRepo, dirty |-> dirty, branches |-> branches, head |-> MAIN,
     merging |-> FALSE, tags |-> {}, prs |-> {}, log |-> <<>>]

SyncIdle ==
    /\ sh = NotStarted
    /\ repo = Repository(TRUE, FALSE, {MAIN, FEATURE})

ExitWith(status) == [sh EXCEPT !.pc = "exited", !.status = status]

\* Lines 34-100: the arguments are parsed, the sync type is validated, and
\* the script refuses to run outside a repository or with uncommitted
\* changes.
Start(argv) ==
    /\ sh.pc = "start"
    /\ LET o == ParseArgs(argv, Defaults)
           parsed == [sh EXCEPT !.argv = argv,
                                !.SYNC_TYPE = o.SYNC_TYPE,
                                !.CREATE_RELEASE = o.CREATE_RELEASE,
                                !.DRY_RUN = o.DRY_RUN,
                                !.CREATE_PR = o.CREATE_PR]
       IN  sh' = IF o.stop = "help"
                 THEN [parsed EXCEPT !.pc = "exited", !.status = 0]
                 ELSE IF o.stop # ""
                 THEN [parsed EXCEPT !.pc = "exited", !.status = 1]
                 ELSE IF o.SYNC_TYPE \notin SyncTypes
                 THEN [parsed EXCEPT !.pc = "exited", !.status = 1]
                 ELSE IF ~repo.inRepo
                 THEN [parsed EXCEPT !.pc = "exited", !.status = 1]
                 ELSE IF repo.dirty
                 THEN [parsed EXCEPT !.pc = "exited", !.status = 1]
                 ELSE [parsed EXCEPT !.pc = "backup main"]
    /\ UNCHANGED <<env, authVars, mapVars, genVars, repo>>

\* [[ "$SYNC_TYPE" == "full" || "$SYNC_TYPE" == "main-only" ]] for main,
\* [[ "$SYNC_TYPE" == "full" || "$SYNC_TYPE" == "feature-only" ]] for the
\* feature branch.
Selected(branch) ==
    \/ sh.SYNC_TYPE = "full"
    \/ branch = MAIN /\ sh.SYNC_TYPE = "main-only"
    \/ branch = FEATURE /\ sh.SYNC_TYPE = "feature-only"

AfterBackup(branch) == IF branch = MAIN THEN "backup feature" ELSE "sync main"

\* Mutant: only main is backed up.
CreateBackup_MainOnly(branch) ==
    /\ sh.pc = (IF branch = MAIN THEN "backup main" ELSE "backup feature")
    /\ IF ~Selected(branch) \/ sh.DRY_RUN \/ branch # MAIN
       THEN /\ sh' = [sh EXCEPT !.pc = AfterBackup(branch)]
            /\ repo' = repo
       ELSE IF branch \notin repo.branches
       THEN /\ sh' = ExitWith(1)
            /\ repo' = [repo EXCEPT
                          !.log = Append(@, Cmd("git checkout", branch, repo.head))]
       ELSE /\ sh' = [sh EXCEPT !.pc = AfterBackup(branch)]
            /\ repo' = [repo EXCEPT
                          !.head = backup_branch(branch),
                          !.branches = @ \cup {backup_branch(branch)},
                          !.log = @ \o <<Cmd("git checkout", branch, repo.head),
                                         Cmd("git checkout -b", backup_branch(branch), branch),
                                         Cmd("git push origin", backup_branch(branch),
                                             backup_branch(branch))>>]
    /\ UNCHANGED <<env, authVars, mapVars, genVars>>

\* create_backup "$branch", called for main and then for the feature branch
\* when the sync type selects it. The script runs under set -e: a checkout
\* that fails ends it; a push that fails is tolerated (|| echo).
CreateBackup(branch) ==
    /\ sh.pc = (IF branch = MAIN THEN "backup main" ELSE "backup feature")
    /\ IF ~Selected(branch) \/ sh.DRY_RUN
       THEN /\ sh' = [sh EXCEPT !.pc = AfterBackup(branch)]
            /\ repo' = repo
       ELSE IF branch \notin repo.branches
       THEN /\ sh' = ExitWith(1)
            /\ repo' = [repo EXCEPT
                          !.log = Append(@, Cmd("git checkout", branch, repo.head))]
       ELSE /\ sh' = [sh EXCEPT !.pc = AfterBackup(branch)]
            /\ repo' = [repo EXCEPT
                          !.head = backup_branch(branch),
                          !.branches = @ \cup {backup_branch(branch)},
                          !.log = @ \o <<Cmd("git checkout", branch, repo.head),
                                         Cmd("git checkout -b", backup_branch(branch), branch),
                                         Cmd("git push origin", backup_branch(branch),
                                             backup_branch(branch))>>]
    /\ UNCHANGED <<env, authVars, mapVars, genVars>>

AfterSync(branch) == IF branch = MAIN THEN "sync feature" ELSE "check"

\* if ! sync_branch "$branch" "$remote" "$remote_branch"; then
\* CONFLICTS_DETECTED=true; fi. The function runs as the condition of an if,
\* where set -e has no effect: a checkout that fails (no such branch, or an
\* unfinished merge in the working tree) leaves HEAD where it is and the
\* function goes on. analysis is what git merge-tree and git diff
\* --name-only report: "conflict", "protected" (README.md or
\* CONTRIBUTING.md would change) or "clean".
SyncBranch(branch, remote, remote_branch, analysis) ==
    /\ sh.pc = (IF branch = MAIN THEN "sync main" ELSE "sync feature")
    /\ IF ~Selected(branch) \/ sh.DRY_RUN
       THEN /\ sh' = [sh EXCEPT !.pc = AfterSync(branch)]
            /\ repo' = repo
       ELSE LET checkedOut == branch \in repo.branches /\ ~repo.merging
                head == IF checkedOut THEN branch ELSE repo.head
                upstream == remote \o "/" \o remote_branch
                before == repo.log \o <<Cmd("git checkout", branch, repo.head),
                                        Cmd("git fetch", remote, head)>>
            IN  IF analysis = "conflict"
                THEN /\ sh' = [sh EXCEPT !.pc = AfterSync(branch),
                                         !.CONFLICTS_DETECTED = TRUE]
                     /\ repo' = [repo EXCEPT
                                   !.head = head,
                                   !.merging = TRUE,
                                   !.log = Append(before, Cmd("git merge", upstream, head))]
                ELSE IF analysis = "protected"
                THEN /\ sh' = [sh EXCEPT !.pc = AfterSync(branch),
                                         !.CONFLICTS_DETECTED = TRUE]
                     /\ repo' = [repo EXCEPT
                                   !.head = head,
                                   !.log = Append(before, Cmd("git merge", upstream, head))]
                ELSE /\ sh' = [sh EXCEPT !.pc = AfterSync(branch)]
                     /\ repo' = [repo EXCEPT
                                   !.head = head,
                                   !.log = before \o
                                             <<Cmd("git merge", upstream, head),
                                               Cmd("git push origin", branch, head)>>]
    /\ UNCHANGED <<env, authVars, mapVars, genVars>>

\* if [[ "$CONFLICTS_DETECTED" == false ]]; then if check_feature_updates;
\* then FEATURE_UPDATES_AVAILABLE=true; fi; fi. ahead is what git rev-list
\* --count main..feature/openrouter-support prints, conflicts what git
\* merge-tree shows between the two branches; the function returns 0 when
\* its if is not taken.
CheckFeatureUpdates(ahead, conflicts) ==
    /\ sh.pc = "check"
    /\ LET returns ==
               IF sh.SYNC_TYPE = "full" \/ sh.SYNC_TYPE = "feature-only"
               THEN IF ahead > 0 THEN (IF conflicts THEN 1 ELSE 0) ELSE 0
               ELSE 0
           measured == ~sh.CONFLICTS_DETECTED /\ sh.SYNC_TYPE \in {"full", "feature-only"}
       IN  sh' = [sh EXCEPT
                    !.pc = "tests",
                    !.FEATURE_AHEAD = IF measured THEN ahead ELSE @,
                    !.FEATURE_UPDATES_AVAILABLE =
                        ~sh.CONFLICTS_DETECTED /\ returns = 0]
    /\ UNCHANGED <<env, authVars, mapVars, genVars, repo>>

\* The block of lines 235-314 is entered without conflicts and outside a dry
\* run only.
PostSync == ~sh.CONFLICTS_DETECTED /\ ~sh.DRY_RUN

\* Mutant: the tests run in a dry run too.
RunTests_InDryRun(vitest) ==
    /\ sh.pc = "tests"
    /\ sh' = [sh EXCEPT !.pc = IF PostSync THEN "pr" ELSE "finish"]
    /\ repo' = IF ~sh.CONFLICTS_DETECTED /\ vitest
               THEN [repo EXCEPT
                       !.log = Append(@, Cmd("npm test", "openRouter", repo.head))]
               ELSE repo
    /\ UNCHANGED <<env, authVars, mapVars, genVars>>

\* Lines 235-249: npm test -- --testPathPattern="openRouter" when vitest is
\* installed; its result changes the message only.
RunTests(vitest) ==
    /\ sh.pc = "tests"
    /\ sh' = [sh EXCEPT !.pc = IF PostSync THEN "pr" ELSE "finish"]
    /\ repo' = IF PostSync /\ vitest
               THEN [repo EXCEPT
                       !.log = Append(@, Cmd("npm test", "openRouter", repo.head))]
               ELSE repo
    /\ UNCHANGED <<env, authVars, mapVars, genVars>>

\* A pull request on GitHub.
PullRequest(base, head) == [base |-> base, head |-> head]

\* Lines 251-291: gh pr create --base main --head feature/openrouter-support
\* when -p was given, updates are available and gh is installed. created
\* tells whether gh pr create succeeds: GitHub makes no pull request when
\* the count the script measured says there are no commits between the
\* branches.
CreatePR(gh, created) ==
    /\ sh.pc = "pr"
    /\ created =>
          /\ gh
          /\ sh.SYNC_TYPE \in {"full", "feature-only"} => sh.FEATURE_AHEAD > 0
    /\ sh' = [sh EXCEPT !.pc = "release"]
    /\ repo' = IF sh.CREATE_PR /\ sh.FEATURE_UPDATES_AVAILABLE /\ gh
               THEN [repo EXCEPT
                       !.prs = IF created THEN @ \cup {PullRequest(MAIN, FEATURE)} ELSE @,
                       !.log = Append(@, Cmd("gh pr create", FEATURE, repo.head))]
               ELSE repo
    /\ UNCHANGED <<env, authVars, mapVars, genVars>>

RELEASE_TAG == "v" \o TIMESTAMP \o "-openrouter-sync"

\* Lines 293-313: git tag -a and git push origin of the tag when -r was
\* given; under set -e a push that fails ends the script.
CreateRelease(pushed) ==
    /\ sh.pc = "release"
    /\ IF ~sh.CREATE_RELEASE
       THEN /\ sh' = [sh EXCEPT !.pc = "finish"]
            /\ repo' = repo
       ELSE /\ sh' = IF pushed THEN [sh EXCEPT !.pc = "finish"] ELSE ExitWith(1)
            /\ repo' = [repo EXCEPT
                          !.tags = @ \cup {RELEASE_TAG},
                          !.log = @ \o <<Cmd("git tag -a", RELEASE_TAG, repo.head),
                                         Cmd("git push origin", RELEASE_TAG, repo.head)>>]
    /\ UNCHANGED <<env, authVars, mapVars, genVars>>

\* Lines 316-350: exit 1 when conflicts were detected, exit 0 otherwise.
Finish ==
    /\ sh.pc = "finish"
    /\ sh' = ExitWith(IF sh.CONFLICTS_DETECTED THEN 1 ELSE 0)
    /\ UNCHANGED <<env, authVars, mapVars, genVars, repo>>

-----------------------------------------------------------------------------
(* Specifications *)

InitAuth ==
    /\ env \in AuthEnvs
    /\ settings \in [enforcedType : AuthTypeOrUndefined,
                     selectedType : AuthTypeOrUndefined]
    /\ authArgs \in [configuredAuthType : AuthTypeOrUndefined,
                     useExternalAuth : BOOLEAN]
    /\ authPc = "idle"
    /\ authError = NoError
    /\ authCalls = <<>>
    /\ MapIdle
    /\ GenIdle
    /\ SyncIdle

NextAuth ==
    \/ \E validateErr \in {undefined, "invalid auth method"} :
          ValidateNonInteractiveAuth(validateErr)
    \/ RefreshAuthResolves
    \/ RefreshAuthRejects

SpecAuth == InitAuth /\ [][NextAuth]_vars

\* ---- the mapper ----

InitMap ==
    /\ mapIn \in MapInputs
    /\ mapOut = Pending
    /\ env = EmptyEnv
    /\ AuthIdle
    /\ GenIdle
    /\ SyncIdle

NextMap == MapModel

SpecMap == InitMap /\ [][NextMap]_vars

\* ---- the generator factory and the adapter client ----

MaxTextLen == 5

Text(str) == [text |-> str]

Req(model, contents, config) ==
    [model |-> model, contents |-> contents, config |-> config]

HiContents == <<[role |-> "user", parts |-> <<Text("hi")>>]>>

\* A first entry without role and with two parts, then a model turn.
TwoTurns == <<[parts |-> <<Text("a"), Text("b")>>],
              [role |-> "model", parts |-> <<Text("ok")>>]>>

\* One user entry whose JSON serialization is n characters long.
ContentsOfLength(n) ==
    LET overhead == Len(JsonContents(<<[role |-> "user", parts |-> <<Text("")>>]>>))
    IN  <<[role |-> "user", parts |-> <<Text(Repeat("a", n - overhead))>>]>>

GenRequests ==
    {Req("gemini-2.5-pro", HiContents, <<>>),
     Req("models/gemini-2.5-flash", TwoTurns, [temperature |-> 1])}

CountContents ==
    {<<>>, HiContents, TwoTurns, ContentsOfLength(400), ContentsOfLength(401)}
        \cup {<<[role |-> "user", parts |-> <<Text(Repeat("a", n))>>]>> :
                 n \in 0..MaxTextLen}

StatusTexts == {"Internal Server Error", "Too Many Requests"}

HelloPayload ==
    [choices |-> <<[message |-> [content |-> "hello"], finish_reason |-> "stop"]>>,
     usage |-> [prompt_tokens |-> 3, completion_tokens |-> 2, total_tokens |-> 5]]

\* No usage reported, and the generation was cut.
LengthPayload ==
    [choices |-> <<[message |-> [content |-> "hel"], finish_reason |-> "length"]>>]

\* An error body served with a 2xx status: no choices.
NoChoicesPayload == [error |-> "overloaded"]

\* Only the prompt count is reported; no content and no finish reason.
PartialUsagePayload ==
    [choices |-> <<[message |-> [role |-> "assistant"]]>>,
     usage |-> [prompt_tokens |-> 7]]

\* The reported total is smaller than prompt plus completion.
InconsistentUsagePayload ==
    [choices |-> <<[message |-> [content |-> "hello"], finish_reason |-> "stop"]>>,
     usage |-> [prompt_tokens |-> 3, completion_tokens |-> 2, total_tokens |-> 4]]

Payloads == {HelloPayload, LengthPayload, NoChoicesPayload}

UsagePayloads == Payloads \cup {PartialUsagePayload, InconsistentUsagePayload}

\* The environments of the gateway path.
GatewayEnvs ==
    {[EmptyEnv EXCEPT !["OPENROUTER_API_KEY"] = key,
                      !["OPENROUTER_BASE_URL"] = url] :
        key \in {undefined, "sk-key"},
        url \in {undefined, "https://api.z.ai/api/paas/v4"}}

InitClient ==
    /\ env \in GatewayEnvs
    /\ AuthIdle
    /\ MapIdle
    /\ GenIdle
    /\ SyncIdle

ClientCalls ==
    \/ \E op \in {"generateContent", "generateContentStream"}, r \in GenRequests :
          GenerateContent(op, r)
    \/ \E id \in 1..MaxCalls, statusText \in StatusTexts :
          FetchResolves(id, FALSE, statusText)
    \/ \E id \in 1..MaxCalls : FetchResolves(id, TRUE, "OK")
    \/ \E id \in 1..MaxCalls : FetchRejects(id)
    \/ \E id \in 1..MaxCalls, data \in Payloads : JsonResolves(id, data)
    \/ \E id \in 1..MaxCalls : JsonRejects(id)
    \/ \E id \in 1..MaxCalls : StreamNext(id)
    \/ \E r \in GenRequests : EmbedContent(r)

NextClient ==
    \/ \E authType \in AuthTypeOrUndefined :
          CreateContentGeneratorConfig(authType, undefined)
    \/ \E codeAssistOk \in BOOLEAN : CreateContentGenerator(codeAssistOk)
    \/ ClientCalls
    \/ \E contents \in {<<>>, HiContents} :
          CountTokens([model |-> "gemini-2.5-pro", contents |-> contents])

SpecClient == InitClient /\ [][NextClient]_vars

\* ---- countTokens on a client the factory built for the gateway ----

InitCount ==
    /\ env = [EmptyEnv EXCEPT !["OPENROUTER_API_KEY"] = "sk-key"]
    /\ AuthIdle
    /\ MapIdle
    /\ cgConfig = ContentGeneratorConfig(env, USE_OPENROUTER, undefined)
    /\ generator = ContentGeneratorFor(cgConfig, TRUE)
    /\ calls = <<>>
    /\ http = <<>>
    /\ SyncIdle

NextCount ==
    \E contents \in CountContents :
        CountTokens([model |-> "gemini-2.5-pro", contents |-> contents])

SpecCount == InitCount /\ [][NextCount]_vars

\* ---- the two generator factories, on every kind of environment ----

FactoryEnvs ==
    {[EmptyEnv EXCEPT !["GEMINI_API_KEY"] = gemini,
                      !["GOOGLE_API_KEY"] = google,
                      !["GOOGLE_CLOUD_PROJECT"] = project,
                      !["GOOGLE_CLOUD_LOCATION"] = location,
                      !["OPENROUTER_API_KEY"] = openrouter,
                      !["OPENROUTER_BASE_URL"] = url] :
        gemini \in {undefined, "sk-key"},
        google \in {undefined, "sk-key"},
        project \in {undefined, "my-project"},
        location \in {undefined, "us-central1"},
        openrouter \in KeyValues,
        url \in {undefined, "https://api.z.ai/api/paas/v4"}}

InitFactory ==
    /\ env \in FactoryEnvs
    /\ AuthIdle
    /\ MapIdle
    /\ GenIdle
    /\ SyncIdle

NextFactory ==
    \/ \E authType \in AuthTypeOrUndefined, proxy \in {undefined, "http://proxy:8080"} :
          CreateContentGeneratorConfig(authType, proxy)
    \/ \E codeAssistOk \in BOOLEAN :
          "model" \notin DOMAIN cgConfig /\ CreateContentGenerator(codeAssistOk)
    \/ \E model \in {undefined, "gemini-1.5-pro"},
          authType \in CoreAuthType \cup {undefined},
          runtimeModel \in {undefined, "gemini-2.5-flash"} :
          \E effective \in {OrElse(runtimeModel, OrElse(model, DEFAULT_GEMINI_MODEL)),
                            "gemini-2.5-flash"} :
              CoreCreateContentGeneratorConfig(model, authType, runtimeModel, effective)
    \/ \E codeAssistOk \in BOOLEAN : CoreCreateContentGenerator(codeAssistOk)

SpecFactory == InitFactory /\ [][NextFactory]_vars

\* ---- calls whose caller aborts while the gateway is answering ----

AbortRequests ==
    {Req("gemini-2.5-pro", HiContents, [abortSignal |-> "AbortSignal"])}

InitAbort == InitCount

NextAbort ==
    \/ \E op \in {"generateContent", "generateContentStream"}, r \in AbortRequests :
          GenerateContent(op, r)
    \/ \E id \in 1..MaxCalls : AbortSignal(id)
    \/ \E id \in 1..MaxCalls : FetchResolves(id, FALSE, "Internal Server Error")
    \/ \E id \in 1..MaxCalls : FetchResolves(id, TRUE, "OK")
    \/ \E id \in 1..MaxCalls : FetchRejects(id)
    \/ \E id \in 1..MaxCalls, data \in {HelloPayload, NoChoicesPayload} :
          JsonResolves(id, data)
    \/ \E id \in 1..MaxCalls : JsonRejects(id)
    \/ \E id \in 1..MaxCalls : StreamNext(id)

SpecAbort == InitAbort /\ [][NextAbort]_vars

\* ---- the model identifier of generateContent, on three gateways ----

ModelIds ==
    {"gemini-2.5-pro", "models/gemini-2.5-pro", "google/gemini-2.5-flash",
     "models/models/glm-4.5", "accounts/fireworks/models/llama-v3p1-8b-instruct"}

ModelEnvs ==
    {[EmptyEnv EXCEPT !["OPENROUTER_API_KEY"] = "sk-key",
                      !["OPENROUTER_BASE_URL"] = url] :
        url \in {undefined, "https://api.z.ai/api/paas/v4",
                 "https://api.fireworks.ai/inference/v1"}}

InitModel ==
    /\ env \in ModelEnvs
    /\ AuthIdle
    /\ MapIdle
    /\ cgConfig = ContentGeneratorConfig(env, USE_OPENROUTER, undefined)
    /\ generator = ContentGeneratorFor(cgConfig, TRUE)
    /\ calls = <<>>
    /\ http = <<>>
    /\ SyncIdle

NextModel ==
    \E op \in {"generateContent", "generateContentStream"}, model \in ModelIds :
        GenerateContent(op, Req(model, HiContents, <<>>))

SpecModel == InitModel /\ [][NextModel]_vars

\* ---- one run of scripts/manual-sync.sh ----

TypeArgs == {<<>>} \cup {<<"-t", type>> : type \in SyncTypes \cup {"nightly"}}

FlagArgs(flag) == {<<>>, <<flag>>}

Argvs ==
    {t \o r \o d \o p :
        t \in TypeArgs, r \in FlagArgs("-r"), d \in FlagArgs("--dry-run"),
        p \in FlagArgs("-p")}
    \cup {<<"-h">>, <<"-d", "--help">>, <<"-d", "-x">>, <<"-d", "-t">>}

Repositories ==
    {Repository(TRUE, dirty, branches) :
        dirty \in BOOLEAN, branches \in {{MAIN, FEATURE}, {MAIN}}}
    \cup {Repository(FALSE, FALSE, {})}

InitSync ==
    /\ env = EmptyEnv
    /\ AuthIdle
    /\ MapIdle
    /\ GenIdle
    /\ sh = NotStarted
    /\ repo \in Repositories

Analyses == {"conflict", "protected", "clean"}

NextSync ==
    \/ \E argv \in Argvs : Start(argv)
    \/ \E branch \in {MAIN, FEATURE} : CreateBackup(branch)
    \/ \E analysis \in Analyses : SyncBranch(MAIN, "google-gemini", "main", analysis)
    \/ \E analysis \in Analyses : SyncBranch(FEATURE, "upstream", FEATURE, analysis)
    \/ \E ahead \in 0..1, conflicts \in BOOLEAN : CheckFeatureUpdates(ahead, conflicts)
    \/ \E vitest \in BOOLEAN : RunTests(vitest)
    \/ \E gh \in BOOLEAN, created \in BOOLEAN : CreatePR(gh, created)
    \/ \E pushed \in BOOLEAN : CreateRelease(pushed)
    \/ Finish

SpecSync == InitSync /\ [][NextSync]_vars

\* ---- the responses of a client built for the gateway ----

InitResponse == InitCount

NextResponse ==
    \/ \E op \in {"generateContent", "generateContentStream"} :
          GenerateContent(op, Req("gemini-2.5-pro", HiContents, <<>>))
    \/ \E id \in 1..MaxCalls : FetchResolves(id, TRUE, "OK")
    \/ \E id \in 1..MaxCalls, data \in UsagePayloads : JsonResolves(id, data)
    \/ \E id \in 1..MaxCalls : StreamNext(id)

SpecResponse == InitResponse /\ [][NextResponse]_vars

\* ---- the messages of generateContent on a client built for the gateway ----

\* Content entries with text-only parts: role absent, "user" or "model";
\* parts two texts, one empty text, or absent.
MsgEntries ==
    {[role |-> role, parts |-> parts] :
        role \in {"user", "model"}, parts \in {<<Text("a"), Text("b")>>, <<Text("")>>}}
    \cup {[parts |-> parts] : parts \in {<<Text("a"), Text("b")>>, <<Text("")>>}}
    \cup {[role |-> "user"], <<>>}

MsgContents ==
    {<<>>} \cup {<<c>> : c \in MsgEntries}
           \cup {<<c, d>> : c \in MsgEntries, d \in MsgEntries}

InitMessages == InitCount

NextMessages ==
    \E contents \in MsgContents :
        GenerateContent("generateContent", Req("gemini-2.5-pro", contents, <<>>))

SpecMessages == InitMessages /\ [][NextMessages]_vars

-----------------------------------------------------------------------------
(* Properties of the auth resolver, checked under SpecAuth *)

RefreshAuthCalls == {i \in DOMAIN authCalls : authCalls[i].fn = "refreshAuth"}
SetValueCalls == {i \in DOMAIN authCalls : authCalls[i].fn = "setValue"}
AuthFinished == authPc \in {"returned", "exited"}

\* C1: whenever the persisted settings carry an enforced auth type A and the
\* type detected from the environment is B with A # B, resolution fails with
\* the auth-mismatch error: refreshAuth is never invoked and no
\* configuration is returned.
C1_EnforcedMismatchFails ==
    LET A == settings.enforcedType
        B == getAuthTypeFromEnv(env)
    IN  (A \in AuthType /\ B \in AuthType /\ A # B /\ authPc # "idle") =>
            /\ authPc = "exited"
            /\ authError = AuthMismatchError
            /\ RefreshAuthCalls = {}

\* A run that ended with enforced type A and detected type B, A # B, even
\* though the explicit argument agreed with the enforced type.
C1_Witness ==
    /\ authPc = "exited"
    /\ settings.enforcedType = USE_GEMINI
    /\ getAuthTypeFromEnv(env) = USE_OPENROUTER
    /\ authArgs.configuredAuthType = USE_GEMINI
    /\ authError.kind = "AuthMismatch"

\* C2: getAuthTypeFromEnv returns the type of the first condition that holds
\* in the order GOOGLE_GENAI_USE_GCA = 'true', GOOGLE_GENAI_USE_VERTEXAI =
\* 'true', OPENROUTER_API_KEY set (non-empty), GEMINI_API_KEY set
\* (non-empty), and undefined when none holds.
C2_EnvPriorityOrder ==
    LET r == getAuthTypeFromEnv(env)
        gca == env["GOOGLE_GENAI_USE_GCA"] = "true"
        vtx == env["GOOGLE_GENAI_USE_VERTEXAI"] = "true"
        ork == env["OPENROUTER_API_KEY"] \notin {undefined, ""}
        gem == env["GEMINI_API_KEY"] \notin {undefined, ""}
    IN  /\ gca => r = "oauth-personal"
        /\ (~gca /\ vtx) => r = "vertex-ai"
        /\ (~gca /\ ~vtx /\ ork) => r = "openrouter"
        /\ (~gca /\ ~vtx /\ ~ork /\ gem) => r = "gemini-api-key"
        /\ (~gca /\ ~vtx /\ ~ork /\ ~gem) => r = undefined

\* Both keys are set and the Vertex flag is on: the resolver went on with
\* Vertex AI, the earlier condition.
C2_Witness ==
    /\ env["GOOGLE_GENAI_USE_GCA"] = "false"
    /\ env["GOOGLE_GENAI_USE_VERTEXAI"] = "true"
    /\ env["OPENROUTER_API_KEY"] = "sk-key"
    /\ env["GEMINI_API_KEY"] = "sk-key"
    /\ settings.enforcedType = undefined
    /\ \E i \in RefreshAuthCalls : authCalls[i].arg = USE_VERTEX_AI

\* C3: the effective auth type is the enforced type, else the detected type,
\* else the explicit argument; the explicit argument is used only when there
\* is neither an enforced nor a detected type; when none of the three is
\* present resolution fails with the configuration error naming the
\* recognized environment variables, without calling refreshAuth.
C3_Precedence ==
    LET A == settings.enforcedType
        B == getAuthTypeFromEnv(env)
        X == authArgs.configuredAuthType
        expected == IF A # undefined THEN A ELSE IF B # undefined THEN B ELSE X
    IN  /\ \A i \in DOMAIN authCalls :
              authCalls[i].fn \in {"refreshAuth", "validateAuthMethod"} =>
                  authCalls[i].arg = expected
        /\ (A = undefined /\ B = undefined /\ X = undefined /\ authPc # "idle") =>
              /\ authPc = "exited"
              /\ authError.kind = "Configuration"
              /\ {authError.names[i] : i \in DOMAIN authError.names} =
                     {"OPENROUTER_API_KEY", "GEMINI_API_KEY",
                      "GOOGLE_GENAI_USE_VERTEXAI", "GOOGLE_GENAI_USE_GCA"}
              /\ authCalls = <<>>
        /\ authPc = "returned" => RefreshAuthCalls # {}

\* The explicit argument was used: nothing enforced, nothing detected.
C3_Witness ==
    /\ settings.enforcedType = undefined
    /\ getAuthTypeFromEnv(env) = undefined
    /\ authArgs.configuredAuthType = USE_OPENROUTER
    /\ authPc = "returned"
    /\ \E i \in RefreshAuthCalls : authCalls[i].arg = USE_OPENROUTER

\* C4 as stated: with only an environment indicating mode B and no enforced
\* type, resolution succeeds with B (refreshAuth is called with B) and the
\* persisted selected type is B.
C4_AlwaysSucceeds ==
    LET B == getAuthTypeFromEnv(env)
    IN  (settings.enforcedType = undefined /\ B # undefined /\ AuthFinished) =>
            /\ authPc = "returned"
            /\ \E i \in RefreshAuthCalls : authCalls[i].arg = B
            /\ settings.selectedType = B

\* C4 (amended): with only an environment indicating mode B and no enforced
\* type, the resolver sets the persisted selected type to B, writing the
\* settings exactly when B differs from the persisted selected type; it
\* calls refreshAuth with B unless auth-method validation (skipped with
\* external auth) reports an error, and it returns the configuration only
\* after that refreshAuth call; a validation error or a rejected refreshAuth
\* ends in the error path.
C4_DetectedOnly ==
    [][LET B == getAuthTypeFromEnv(env)
       IN  (settings.enforcedType = undefined /\ B # undefined) =>
             /\ authPc = "idle" =>
                  /\ settings'.selectedType = B
                  /\ (SetValueCalls' # {}) <=> (settings.selectedType # B)
                  /\ \A i \in SetValueCalls' : authCalls'[i].arg = B
                  /\ authPc' \in {"refreshing", "exited"}
                  /\ authPc' = "refreshing" <=>
                         (\E i \in RefreshAuthCalls' : authCalls'[i].arg = B)
                  /\ authPc' = "exited" =>
                         /\ authError' = AuthMethodError
                         /\ ~authArgs.useExternalAuth
                  /\ authArgs.useExternalAuth => authPc' = "refreshing"
             /\ authPc = "refreshing" =>
                  /\ authPc' \in {"returned", "exited"}
                  /\ authPc' = "exited" => authError' = RefreshAuthError
                  /\ authPc' = "returned" =>
                         /\ settings'.selectedType = B
                         /\ \E i \in RefreshAuthCalls' : authCalls'[i].arg = B
      ]_vars

\* Resolution succeeded with the detected type B after the persisted selected
\* type, which differed, was set to B.
C4_Witness ==
    /\ settings.enforcedType = undefined
    /\ getAuthTypeFromEnv(env) = USE_OPENROUTER
    /\ authArgs.configuredAuthType = USE_GEMINI
    /\ authPc = "returned"
    /\ settings.selectedType = USE_OPENROUTER
    /\ authCalls = <<Call("setValue", USE_OPENROUTER),
                     Call("validateAuthMethod", USE_OPENROUTER),
                     Call("refreshAuth", USE_OPENROUTER)>>

\* The places of the calls of fn among the collaborator calls.
CallsOf(fn) == {i \in DOMAIN authCalls : authCalls[i].fn = fn}

\* C22: validateNonInteractiveAuth writes the selected auth type to the
\* persisted settings before it validates the auth method and before it
\* calls refreshAuth: a resolution that then fails in validateAuthMethod or
\* in refreshAuth ends in the error path with the persisted selected type
\* already changed to the detected type.
C22_WriteOrder ==
    \A w \in CallsOf("setValue") :
        /\ \A v \in CallsOf("validateAuthMethod") : w < v
        /\ \A r \in CallsOf("refreshAuth") : w < r

C22_WrittenBeforeFailure ==
    LET detectedAuthType == getAuthTypeFromEnv(env)
    IN  (authPc = "idle" /\ detectedAuthType # undefined
            /\ settings.selectedType # detectedAuthType
            /\ (authPc' = "refreshing" \/ authError' = AuthMethodError)) =>
            /\ settings'.selectedType = detectedAuthType
            /\ authCalls'[1] = Call("setValue", detectedAuthType)

C22_KeptOnFailure ==
    (authPc = "refreshing" /\ authPc' = "exited") =>
        /\ authError' = RefreshAuthError
        /\ settings' = settings
        /\ getAuthTypeFromEnv(env) # undefined =>
              settings'.selectedType = getAuthTypeFromEnv(env)

C22_SettingsWrittenFirst ==
    [][C22_WriteOrder' /\ C22_WrittenBeforeFailure /\ C22_KeptOnFailure]_vars

\* The validation of the detected type failed after the persisted selected
\* type, which was another one, had been set to it.
C22_Witness ==
    /\ authPc = "exited"
    /\ authError = AuthMethodError
    /\ getAuthTypeFromEnv(env) = USE_OPENROUTER
    /\ settings.selectedType = USE_OPENROUTER
    /\ authCalls = <<Call("setValue", USE_OPENROUTER),
                     Call("validateAuthMethod", USE_OPENROUTER)>>

\* C23: when an enforced auth type is set and the environment indicates no
\* auth type at all, validateNonInteractiveAuth fails with the auth-mismatch
\* error, even if the explicitly supplied auth type equals the enforced
\* type; with an enforced type it succeeds only when the type detected from
\* the environment equals it.
C23_EnforcedNeedsEnvironment ==
    settings.enforcedType \in AuthType =>
        /\ (getAuthTypeFromEnv(env) = undefined /\ authPc # "idle") =>
              /\ authPc = "exited"
              /\ authError = AuthMismatchError
              /\ authCalls = <<>>
        /\ authPc \in {"refreshing", "returned"} =>
              getAuthTypeFromEnv(env) = settings.enforcedType

\* The environment indicates nothing, the explicit argument equals the
\* enforced type, and the run ended with the mismatch error.
C23_Witness ==
    /\ authPc = "exited"
    /\ settings.enforcedType = USE_GEMINI
    /\ authArgs.configuredAuthType = USE_GEMINI
    /\ getAuthTypeFromEnv(env) = undefined
    /\ env["GEMINI_API_KEY"] = ""
    /\ authError = AuthMismatchError
    /\ authCalls = <<>>

-----------------------------------------------------------------------------
(* Properties of the mapper, checked under SpecMap *)

\* C6: mapGeminiModelToOpenRouter is total: every input string yields a
\* non-empty output string; each identifier of the static table maps to its
\* table entry; every identifier not in the table maps to 'google/' followed
\* by the unchanged input.
C6_MapperTotal ==
    mapOut # Pending =>
        /\ mapOut.type = "string"
        /\ Len(mapOut.value) > 0
        /\ mapIn \in DOMAIN modelMap => mapOut.value = modelMap[mapIn]
        /\ mapIn \notin DOMAIN modelMap => mapOut.value = "google/" \o mapIn

-----------------------------------------------------------------------------
(* Properties of the adapter client, checked under SpecClient and SpecCount *)

RequestsOf(id) == {i \in DOMAIN http : http[i].call = id}

GatewayHost == "https://openrouter.ai"

\* C5: with the gateway API key set and no base-URL override, the resolved
\* configuration has base URL https://openrouter.ai/api/v1, the factory
\* selects the adapter client, and generateContent for model
\* "gemini-2.5-pro" issues a POST to <default host>/api/v1/chat/completions
\* whose body's model field is "google/gemini-2.5-pro".
C5_GatewayEndToEnd ==
    (/\ env["OPENROUTER_API_KEY"] = "sk-key"
     /\ env["OPENROUTER_BASE_URL"] = undefined
     /\ cgConfig # NoConfig
     /\ cgConfig.authType = USE_OPENROUTER) =>
        /\ Get(cgConfig, "baseUrl") = GatewayHost \o "/api/v1"
        /\ generator # NoGenerator => HasClient
        /\ \A i \in DOMAIN http :
              calls[http[i].call].request.model = "gemini-2.5-pro" =>
                  /\ http[i].method = "POST"
                  /\ http[i].url = GatewayHost \o "/api/v1/chat/completions"
                  /\ http[i].body.model = "google/gemini-2.5-pro"

\* C7 as stated: countTokens on an empty contents array returns 0, on a
\* contents array whose JSON serialization is 400 characters long returns
\* 100, and in general ceil(serializedLength / 4).
C7_EmptyCountsZero ==
    \A id \in DOMAIN calls :
        calls[id].op = "countTokens" =>
            LET contents == calls[id].request.contents
                n == calls[id].value.totalTokens
            IN  /\ calls[id].pc = "returned"
                /\ contents = <<>> => n = 0
                /\ Len(JsonContents(contents)) = 400 => n = 100

\* C7 (amended): countTokens returns ceil(serializedLength / 4) of the
\* JSON-serialized contents: 100 for a serialization of 400 characters, and
\* 1 for an empty contents array, whose serialization "[]" has 2 characters.
C7_CeilOfSerializedLength ==
    \A id \in DOMAIN calls :
        calls[id].op = "countTokens" =>
            LET contents == calls[id].request.contents
                len == Len(JsonContents(contents))
                n == calls[id].value.totalTokens
            IN  /\ calls[id].pc = "returned"
                /\ 4 * (n - 1) < len /\ len <= 4 * n
                /\ contents = <<>> => n = 1
                /\ contents = HiContents => n = 11
                /\ len = 400 => n = 100
                /\ len = 401 => n = 101

\* The empty array and a 400-character serialization were both counted.
C7_Witness ==
    /\ Len(calls) = 2
    /\ calls[1].request.contents = <<>>
    /\ calls[1].value.totalTokens = 1
    /\ Len(JsonContents(calls[2].request.contents)) = 400
    /\ calls[2].value.totalTokens = 100

UpstreamErrorPrefix == "OpenRouter API error: "

\* C8: generateContent issues exactly one HTTP request per call; when the
\* upstream response is non-2xx the call fails with an upstream error
\* carrying the HTTP status text, no second request is issued and no
\* response is returned.
C8_OneRequestNoRetry ==
    \A id \in DOMAIN calls :
        calls[id].op = "generateContent" =>
            /\ Cardinality(RequestsOf(id)) = 1
            /\ calls[id].pc = "failed" =>
                  /\ calls[id].value = NoValue
                  /\ calls[id].error \in
                        {UpstreamErrorPrefix \o st : st \in StatusTexts}
                            \cup {"fetch failed", "SyntaxError", "TypeError"}

\* C9: generateContentStream completes the whole upstream request first and
\* then returns a sequence that yields exactly one item, the full
\* generateContent result, and then terminates; each call has its own
\* sequence backed by its own single upstream request, and advancing one
\* sequence leaves every other call as it is.
C9_StreamState ==
    \A id \in DOMAIN calls :
        LET c == calls[id]
        IN  /\ c.op # "generateContentStream" => c.genState = "none" /\ c.received = <<>>
            /\ c.op = "generateContentStream" =>
                  /\ c.pc \in {"fetch", "json", "failed"} =>
                        c.genState = "none" /\ c.received = <<>>
                  /\ c.pc = "returned" =>
                        /\ Cardinality(RequestsOf(id)) = 1
                        /\ c.value.kind = "AsyncGenerator"
                        /\ c.value.result \in
                              {convertResponse(d) : d \in {p \in Payloads : CanConvert(p)}}
                        /\ c.genState \in {"suspendedStart", "suspendedYield", "completed"}
                        /\ c.genState = "suspendedStart" => c.received = <<>>
                        /\ c.genState # "suspendedStart" => c.received = <<c.value.result>>

C9_StreamStep ==
    \A id \in DOMAIN calls :
        (calls'[id].genState # calls[id].genState /\ calls[id].genState # "none") =>
            /\ calls[id].genState = "suspendedStart" =>
                   calls'[id].genState = "suspendedYield"
            /\ calls[id].genState = "suspendedYield" =>
                   calls'[id].genState = "completed"
            /\ http' = http
            /\ \A other \in DOMAIN calls : other # id => calls'[other] = calls[other]

C9_SingleItemStream == [][C9_StreamState' /\ C9_StreamStep]_vars

\* Two streams of one client: the first has delivered its only item and is
\* finished, the second, with its own request, has not been started.
C9_Witness ==
    /\ Len(calls) = 2
    /\ calls[1].op = "generateContentStream"
    /\ calls[2].op = "generateContentStream"
    /\ calls[1].genState = "completed"
    /\ Len(calls[1].received) = 1
    /\ calls[2].genState = "suspendedStart"
    /\ calls[2].received = <<>>
    /\ calls[1].value.result # calls[2].value.result
    /\ Len(http) = 2

\* C10: embedContent fails with the unsupported-operation error for every
\* input, in every state of the client, and never issues an HTTP request.
C10_EmbedUnsupported ==
    /\ \A id \in DOMAIN calls :
          calls[id].op = "embedContent" =>
              /\ calls[id].pc = "failed"
              /\ calls[id].error = "Embeddings not supported for OpenRouter"
              /\ calls[id].value = NoValue
              /\ RequestsOf(id) = {}
    /\ \A i \in DOMAIN http : calls[http[i].call].op # "embedContent"

\* embedContent failed while a generateContent call of the same client was
\* waiting for its response.
C10_Witness ==
    /\ Len(calls) = 2
    /\ calls[1].op = "generateContent"
    /\ calls[1].pc = "fetch"
    /\ calls[2].op = "embedContent"
    /\ calls[2].pc = "failed"
    /\ Len(http) = 1

\* The canonical response a call returned: for generateContentStream the
\* result its generator holds.
ResponseOf(call) ==
    IF call.op = "generateContentStream" THEN call.value.result ELSE call.value

\* C11: for every payload of a successful upstream response, the response
\* the adapter returns has exactly one candidate, with index 0, role "model"
\* and a single text part equal to choices[0].message.content; its finish
\* reason is STOP exactly when choices[0].finish_reason is "stop" and OTHER
\* otherwise; each usage field equals the upstream value, and is 0 when the
\* upstream does not report it.
C11_Translated(data, response) ==
    LET choice == data.choices[1]
        reported(field) == "usage" \in DOMAIN data /\ field \in DOMAIN data.usage
        usage == response.usageMetadata
    IN  /\ Len(response.candidates) = 1
        /\ response.candidates[1].index = 0
        /\ response.candidates[1].content.role = "model"
        /\ Len(response.candidates[1].content.parts) = 1
        /\ DOMAIN response.candidates[1].content.parts[1] = {"text"}
        /\ response.candidates[1].content.parts[1].text =
              (IF "content" \in DOMAIN choice.message
               THEN choice.message.content ELSE undefined)
        /\ response.candidates[1].finishReason \in {"STOP", "OTHER"}
        /\ response.candidates[1].finishReason = "STOP" <=>
              ("finish_reason" \in DOMAIN choice /\ choice.finish_reason = "stop")
        /\ usage.promptTokenCount =
              (IF reported("prompt_tokens") THEN data.usage.prompt_tokens ELSE 0)
        /\ usage.candidatesTokenCount =
              (IF reported("completion_tokens") THEN data.usage.completion_tokens ELSE 0)
        /\ usage.totalTokenCount =
              (IF reported("total_tokens") THEN data.usage.total_tokens ELSE 0)

C11_ResponseTranslation ==
    [][\A id \in DOMAIN calls, data \in UsagePayloads :
          (JsonResolves(id, data) /\ CanConvert(data)) =>
              /\ calls'[id].pc = "returned"
              /\ C11_Translated(data, ResponseOf(calls'[id]))]_vars

\* The scenario of the specification, and next to it a payload without
\* content, finish reason, completion and total counts.
C11_Witness ==
    /\ Len(calls) = 2
    /\ calls[1].pc = "returned"
    /\ calls[1].op = "generateContent"
    /\ calls[1].value.candidates[1].content.parts[1].text = "hello"
    /\ calls[1].value.candidates[1].finishReason = "STOP"
    /\ calls[1].value.usageMetadata =
          [promptTokenCount |-> 3, candidatesTokenCount |-> 2, totalTokenCount |-> 5]
    /\ calls[2].pc = "returned"
    /\ calls[2].op = "generateContent"
    /\ calls[2].value.candidates[1].content.parts[1].text = undefined
    /\ calls[2].value.candidates[1].finishReason = "OTHER"
    /\ calls[2].value.usageMetadata =
          [promptTokenCount |-> 7, candidatesTokenCount |-> 0, totalTokenCount |-> 0]

\* C12: every canonical response the adapter returns satisfies the usage
\* invariant, whatever usage values the upstream payload contains: prompt,
\* completion and total counts are non-negative integers, and the total is at
\* least prompt plus completion when the upstream reports both.
C12_UsageOk(data, response) ==
    LET usage == response.usageMetadata
        reported(field) == "usage" \in DOMAIN data /\ field \in DOMAIN data.usage
    IN  /\ usage.promptTokenCount \in Nat
        /\ usage.candidatesTokenCount \in Nat
        /\ usage.totalTokenCount \in Nat
        /\ (reported("prompt_tokens") /\ reported("completion_tokens")) =>
              usage.totalTokenCount >=
                  usage.promptTokenCount + usage.candidatesTokenCount

C12_UsageInvariant ==
    [][\A id \in DOMAIN calls, data \in UsagePayloads :
          (JsonResolves(id, data) /\ calls'[id].pc = "returned") =>
              C12_UsageOk(data, ResponseOf(calls'[id]))]_vars

\* The texts of a content entry's parts, one after the other.
RECURSIVE C13_Concat(_)
C13_Concat(parts) ==
    IF parts = <<>> THEN ""
    ELSE C13_Concat(SubSeq(parts, 1, Len(parts) - 1)) \o parts[Len(parts)].text

\* C13: for contents with text-only parts, the request carries exactly one
\* flat message per content entry, in the same order; a message's role is the
\* entry's role, or "user" when the entry has none, and its content is the
\* concatenation, without separator, of the entry's text parts in order.
C13_MessagesPreserved ==
    \A i \in DOMAIN http :
        LET contents == calls[http[i].call].request.contents
            messages == http[i].body.messages
        IN  /\ Len(messages) = Len(contents)
            /\ \A k \in DOMAIN contents :
                  /\ DOMAIN messages[k] = {"role", "content"}
                  /\ messages[k].role =
                        (IF "role" \in DOMAIN contents[k]
                         THEN contents[k].role ELSE "user")
                  /\ messages[k].content =
                        (IF "parts" \in DOMAIN contents[k]
                         THEN C13_Concat(contents[k].parts) ELSE "")

\* A model turn of two parts followed by an entry without role.
C13_Witness ==
    /\ Len(http) = 1
    /\ calls[1].request.contents =
          <<[role |-> "model", parts |-> <<Text("a"), Text("b")>>],
            [parts |-> <<Text("")>>]>>
    /\ http[1].body.messages =
          <<[role |-> "model", content |-> "ab"], [role |-> "user", content |-> ""]>>

-----------------------------------------------------------------------------
(* Properties of the generator factories, checked under SpecFactory *)

\* What createContentGenerator gave its caller is a client, not an error.
Built == generator # NoGenerator /\ generator.kind # "Error"

\* The provider client the caller got, behind the logging wrapper if any.
ProviderClient ==
    IF generator.kind = "LoggingContentGenerator" THEN generator.wrapped
    ELSE generator

\* C14: createContentGenerator dispatches on config.authType alone: the
\* Google-login and cloud-shell types build the Code Assist client, the
\* Gemini-key and Vertex types the vendor SDK client, the OpenRouter type
\* the adapter client, and every other type, undefined included, fails with
\* the unsupported-auth-type error and no client is constructed.
C14_DispatchOnAuthType ==
    generator # NoGenerator =>
        LET authType == cgConfig.authType
        IN  /\ authType \in {LOGIN_WITH_GOOGLE, CLOUD_SHELL} =>
                  \/ Built /\ ProviderClient.kind = "CodeAssistContentGenerator"
                  \/ generator = [kind |-> "Error",
                                  message |-> "createCodeAssistContentGenerator rejected"]
            /\ authType \in {USE_GEMINI, USE_VERTEX_AI} =>
                  Built /\ ProviderClient.kind = "GoogleGenAI.models"
            /\ authType = USE_OPENROUTER =>
                  Built /\ ProviderClient.kind \in
                              {"OpenRouterContentGenerator",
                               "createOpenRouterContentGenerator"}
            /\ authType \notin AuthType =>
                  /\ ~Built
                  /\ generator.message =
                        "Error creating contentGenerator: Unsupported authType: "
                            \o ToStr(authType)

\* The cloud-shell type got the Code Assist client although the environment
\* holds the keys of the other modes.
C14_Witness ==
    /\ cgConfig # NoConfig
    /\ cgConfig.authType = CLOUD_SHELL
    /\ env["OPENROUTER_API_KEY"] = "sk-key"
    /\ env["GEMINI_API_KEY"] = "sk-key"
    /\ Built
    /\ ProviderClient.kind = "CodeAssistContentGenerator"

\* C15: every client the generator factory returns is wrapped by the logging
\* decorator: no branch of createContentGenerator that returns successfully
\* hands the provider client itself to the caller.
C15_AlwaysWrapped ==
    Built => generator.kind = "LoggingContentGenerator"

\* The key of a configuration, when it has one that is not empty.
HasKey(config) == Truthy(Get(config, "apiKey"))

\* C16: createContentGeneratorConfig does not return a usable configuration
\* when the mode's required fields are unmet (the Gemini key for the direct
\* mode; an API key, or project and location, for Vertex; the gateway key
\* for OpenRouter), so the factory never builds a client whose required key
\* is missing.
C16_NoClientWithoutKey ==
    Built =>
        /\ cgConfig.authType = USE_GEMINI => HasKey(cgConfig)
        /\ cgConfig.authType = USE_VERTEX_AI =>
              \/ HasKey(cgConfig)
              \/ Truthy(env["GOOGLE_CLOUD_PROJECT"]) /\ Truthy(env["GOOGLE_CLOUD_LOCATION"])
        /\ cgConfig.authType = USE_OPENROUTER =>
              /\ HasKey(cgConfig)
              /\ ProviderClient.kind = "OpenRouterContentGenerator" =>
                    Truthy(ProviderClient.apiKey)

-----------------------------------------------------------------------------
(* Cancellation, checked under SpecAbort *)

\* C17: when the caller cancels while the HTTP call of the adapter is
\* outstanding, the outbound request is aborted and the call ends with a
\* cancellation error: after the cancellation the call never completes with
\* a partial or ordinary response.
C17_CancelledNeverReturns ==
    \A id \in DOMAIN calls :
        calls[id].aborted =>
            /\ calls[id].pc # "returned"
            /\ calls[id].value = NoValue
            /\ calls[id].pc = "failed" => calls[id].error = "AbortError"

-----------------------------------------------------------------------------
(* The model identifier sent to the gateway, checked under SpecModel *)

HasModelsPrefix(model) ==
    Len(model) >= Len("models/") /\ SubSeq(model, 1, Len("models/")) = "models/"

\* C18: a leading "models/" prefix of the request's model identifier is
\* removed before the identifier is sent, so the model field of the request
\* is the bare identifier; an identifier without that prefix is sent as it
\* is.
C18_LeadingPrefixStripped ==
    \A i \in DOMAIN http :
        LET model == calls[http[i].call].request.model
        IN  http[i].body.model =
                IF HasModelsPrefix(model)
                THEN SubSeq(model, Len("models/") + 1, Len(model))
                ELSE model

-----------------------------------------------------------------------------
(* Properties of scripts/manual-sync.sh, checked under SpecSync *)

\* The place of the first command of the log that is cmd with argument arg,
\* or 0.
FirstRun(cmd, arg) ==
    LET places == {i \in DOMAIN repo.log :
                      repo.log[i].cmd = cmd /\ repo.log[i].arg = arg}
    IN  IF places = {} THEN 0
        ELSE CHOOSE i \in places : \A j \in places : i <= j

ValidDryRun ==
    /\ sh.pc # "start"
    /\ LET o == ParseArgs(sh.argv, Defaults)
       IN  o.stop = "" /\ o.DRY_RUN /\ o.SYNC_TYPE \in SyncTypes

\* Nothing was checked out, created, fetched, merged, pushed or tagged, no
\* tests ran and no PR or release was made.
NoChanges ==
    /\ repo.log = <<>>
    /\ repo.head = MAIN
    /\ repo.branches \subseteq {MAIN, FEATURE}
    /\ repo.tags = {}
    /\ repo.prs = {}
    /\ ~repo.merging

\* C20 as stated: in dry-run mode the script makes no changes, for every
\* sync type and flag combination, and it exits with status 0.
C20_DryRunExitsZero ==
    ValidDryRun => NoChanges /\ (sh.pc = "exited" => sh.status = 0)

\* C20, amended: in dry-run mode the script makes no changes, for every
\* sync type and flag combination; it exits with status 0 when it runs in a
\* git repository without uncommitted changes, and with status 1 otherwise.
C20_DryRunNoChanges ==
    ValidDryRun =>
        /\ NoChanges
        /\ sh.pc = "exited" =>
              sh.status = (IF repo.inRepo /\ ~repo.dirty THEN 0 ELSE 1)

\* A dry run of a full sync with -r and -p has gone through every step.
C20_Witness ==
    /\ ValidDryRun
    /\ sh.pc = "exited"
    /\ sh.status = 0
    /\ sh.SYNC_TYPE = "full"
    /\ sh.CREATE_RELEASE
    /\ sh.CREATE_PR
    /\ sh.FEATURE_UPDATES_AVAILABLE

\* C21: with -p the script creates a PR from feature/openrouter-support to
\* main only if feature updates are available (the feature branch has
\* commits ahead of main) and no conflicts were detected; when the feature
\* branch is up to date with main, or the sync type is main-only, no PR is
\* created.
C21_PROnlyForFeatureUpdates ==
    /\ repo.prs \subseteq {PullRequest(MAIN, FEATURE)}
    /\ repo.prs # {} =>
          /\ sh.CREATE_PR
          /\ ~sh.CONFLICTS_DETECTED
          /\ sh.SYNC_TYPE # "main-only"
          /\ sh.FEATURE_AHEAD > 0

====
